---------------------------- MODULE Spec2Model ----------------------------
(***************************************************************************)
(* A model of the smart_screen repository:                                 *)
(*   - src/main.py     the server: the list of connected screens, the      *)
(*                     websocket handler of each screen and the upload     *)
(*                     handler that writes a file and notifies the screens *)
(*   - src/fake_pi.py  the device: the message callback and the download   *)
(*                     of a notified file into the local storage           *)
(*   - src/play_server.py  the player: the queue file, the scan of the     *)
(*                     local folders, the selection of the next media and  *)
(*                     the render loop                                     *)
(* The server, the device and the player are checked under specifications  *)
(* of their own; the variables of the other parts are held at their        *)
(* initial value.                                                          *)
(***************************************************************************)
EXTENDS Integers, Sequences, FiniteSets, TLC

\* ------------------------------------------------------------------ bounds
\* The websocket connections that are ever opened (each a WebSocket object of
\* its own: a screen that reconnects is a new connection).
MaxConns == 3
\* The upload requests that are ever made; they may run concurrently.
MaxUploads == 1
\* The versions of a file the server ever publishes under one name.
MaxVersion == 2
\* The messages the device's callback handles in one run.
MaxCalls == 3
\* The pieces an arbitrary inbound message is put together from.
MaxPieces == 3
\* The entries the producer ever puts in the queue file.
MaxQueue == 2
\* The get_next_media calls of one run of the player.
MaxRounds == 4
\* The passes of auto_refresh_queue's loop in one run of the player.
MaxTicks == 2
\* The inputs of one run of the player, and those pygame holds at a time.
MaxKeys == 2
MaxEvents == 1

WebSockets == 1..MaxConns
Uploads == 1..MaxUploads
\* The name under which the admin panel uploads files (concurrent requests
\* write the same file).
Filenames == {"ad1.png"}

\* Marks a key the response dictionary does not hold.
NoKey == -1

VARIABLES
    \* ---- src/main.py
    active_connections, \* the module-level list of accepted websockets
    handler,            \* websocket_endpoint of each connection: none|running|done
    channel,            \* the transport of each connection: none|open|closed
    media,              \* UPLOAD_DIR: per name absent|partial|<the upload that wrote it>
    pc,                 \* upload_file of each request: idle|write|broadcast|done
    filename,           \* file.filename of each request
    it,                 \* the list iterator of "for ws in active_connections": its index
    notified,           \* the local counter of each request
    response,           \* the dictionary each request returned
    \* ---- history of the server (read by the properties only)
    wrote,              \* per request: pending|ok|failed, the outcome of the write
    delivered,          \* per request: the connections its send_text reached, in order
    failed,             \* per request: the connections whose send_text raised
    snapshot,           \* per request: active_connections when its loop started
    unregistered,       \* per connection: what its handler's removal found
    \* ---- src/fake_pi.py
    storage,            \* STORAGE_DIR: file name -> the bytes of the file
    remote,             \* the server's /media: file name -> the version it serves
    ncalls,             \* the on_message calls made so far
    \* ---- history of the device (read by the properties only)
    last,               \* the latest on_message call: what it was given and did
    prev,               \* the call before it
    firstWrite,         \* file name -> the bytes its first write left in the file
    \* ---- src/play_server.py
    queue_file,         \* queue/media_queue.json: what the file holds
    images_dir,         \* the names in the images folder
    videos_dir,         \* the names in the videos folder
    play_mode,          \* self.play_mode
    loop,               \* self.loop
    current_index,      \* self.current_index
    display_time,       \* self.display_time: seconds per media type
    running,            \* run's local flag
    stage,              \* where run is: idle|showing|error|waiting|stalled|stopped|crashed
    events,             \* pygame's event queue
    rounds,             \* the get_next_media calls made so far (the clock)
    keys,               \* the inputs the user has made so far
    pending,            \* the list mark_as_played_in_queue has read and not yet written
    last_queue_check,   \* self.last_queue_check, NoAttr while there is no such attribute
    ticks,              \* the passes auto_refresh_queue's loop has made so far
    \* ---- history of the player (read by the properties only)
    sel,                \* the latest get_next_media call: what it saw and returned
    stamps,             \* per queue position: how often played_at was set
    returned,           \* per queue position: how often the entry was returned
    trail,              \* the names get_next_media returned, call after call
    rendered,           \* the outcome of the latest render: none|ok|failed
    quit_seen           \* the first quit input consumed: where, and rounds then

serverVars == <<active_connections, handler, channel, media, pc, filename, it,
                notified, response, wrote, delivered, failed, snapshot,
                unregistered>>

deviceVars == <<storage, remote, ncalls, last, prev, firstWrite>>

playerVars == <<queue_file, images_dir, videos_dir, play_mode, loop,
                current_index, display_time, running, stage, events, rounds,
                keys, pending, last_queue_check, ticks, sel, stamps, returned,
                trail, rendered, quit_seen>>

vars == <<serverVars, deviceVars, playerVars>>

\* ----------------------------------------------------------- list helpers
\* The set of a list's elements.
Range(s) == {s[i] : i \in DOMAIN s}

\* list.remove(x): the list without the first occurrence of x.
RECURSIVE Remove(_, _)
Remove(s, x) ==
    IF s = <<>> THEN <<>>
    ELSE IF Head(s) = x THEN Tail(s)
    ELSE <<Head(s)>> \o Remove(Tail(s), x)

\* ====================================================== src/main.py: server
InitServer ==
    /\ active_connections = <<>>
    /\ handler = [w \in WebSockets |-> "none"]
    /\ channel = [w \in WebSockets |-> "none"]
    /\ media = [f \in Filenames |-> "absent"]
    /\ pc = [u \in Uploads |-> "idle"]
    /\ filename = [u \in Uploads |-> "ad1.png"]
    /\ it = [u \in Uploads |-> 0]
    /\ notified = [u \in Uploads |-> 0]
    /\ response = [u \in Uploads |-> [status |-> "pending", notified_screens |-> NoKey]]
    /\ wrote = [u \in Uploads |-> "pending"]
    /\ delivered = [u \in Uploads |-> <<>>]
    /\ failed = [u \in Uploads |-> {}]
    /\ snapshot = [u \in Uploads |-> <<>>]
    /\ unregistered = [w \in WebSockets |-> "no"]

uploadVars == <<media, pc, filename, it, notified, response, wrote, delivered,
                failed, snapshot>>

\* websocket_endpoint up to its first receive: accept, then append to the list.
\* Connections are opened in the order of their numbers.
Connect(w) ==
    /\ handler[w] = "none"
    /\ \A v \in WebSockets : v < w => handler[v] # "none"
    /\ handler' = [handler EXCEPT ![w] = "running"]
    /\ channel' = [channel EXCEPT ![w] = "open"]
    /\ active_connections' = Append(active_connections, w)
    /\ UNCHANGED unregistered
    /\ UNCHANGED <<uploadVars, deviceVars, playerVars>>

\* The loop body: a text frame (a heartbeat) is received and logged.
ReceiveText(w) ==
    /\ handler[w] = "running"
    /\ channel[w] = "open"
    /\ UNCHANGED vars

\* The screen goes away: its transport closes; the handler has not run yet.
ClientDisconnect(w) ==
    /\ channel[w] = "open"
    /\ handler[w] = "running"
    /\ channel' = [channel EXCEPT ![w] = "closed"]
    /\ UNCHANGED <<active_connections, handler, unregistered>>
    /\ UNCHANGED <<uploadVars, deviceVars, playerVars>>

\* list.remove without the membership test: ValueError when w is not there.
UnregisterUnguarded(reg, w) ==
    IF w \in Range(reg)
    THEN [list |-> Remove(reg, w), outcome |-> "removed"]
    ELSE [list |-> reg, outcome |-> "raised"]

\* "if websocket in active_connections: active_connections.remove(websocket)":
\* the list it leaves and what it found.
Unregister(reg, w) ==
    IF w \in Range(reg)
    THEN [list |-> Remove(reg, w), outcome |-> "removed"]
    ELSE [list |-> reg, outcome |-> "absent"]

\* receive_text raises WebSocketDisconnect: the handler removes the connection
\* from the list (if it is there) and ends.
HandleDisconnect(w) ==
    /\ handler[w] = "running"
    /\ channel[w] = "closed"
    /\ handler' = [handler EXCEPT ![w] = "done"]
    /\ active_connections' = Unregister(active_connections, w).list
    /\ unregistered' = [unregistered EXCEPT ![w] = Unregister(active_connections, w).outcome]
    /\ UNCHANGED channel
    /\ UNCHANGED <<uploadVars, deviceVars, playerVars>>

\* receive_text raises another exception (a binary frame has no "text" key):
\* the handler logs it and ends without touching the list; the framework
\* closes the connection of a handler that returned.
HandleError(w) ==
    /\ handler[w] = "running"
    /\ channel[w] = "open"
    /\ handler' = [handler EXCEPT ![w] = "done"]
    /\ channel' = [channel EXCEPT ![w] = "closed"]
    /\ UNCHANGED <<active_connections, unregistered>>
    /\ UNCHANGED <<uploadVars, deviceVars, playerVars>>


connVars == <<active_connections, handler, channel, unregistered>>

\* upload_file up to "await file.read()": the request is received. Requests are
\* numbered in the order they arrive.
UploadStart(u, f) ==
    /\ pc[u] = "idle"
    /\ \A v \in Uploads : v < u => pc[v] # "idle"
    /\ pc' = [pc EXCEPT ![u] = "write"]
    /\ filename' = [filename EXCEPT ![u] = f]
    /\ UNCHANGED <<media, it, notified, response, wrote, delivered, failed, snapshot>>
    /\ UNCHANGED <<connVars, deviceVars, playerVars>>

\* The response of the "except Exception" branch: no notified_screens key.
ErrorResponse == [status |-> "error", notified_screens |-> NoKey]

\* A mutant of UploadWrite: the failure of the write is swallowed and the
\* handler goes on to the broadcast.
UploadWriteSwallow(u, outcome) ==
    /\ pc[u] = "write"
    /\ media' = [media EXCEPT ![filename[u]] =
                    CASE outcome = "ok" -> u
                      [] outcome = "open_failed" -> @
                      [] outcome = "write_failed" -> "partial"]
    /\ wrote' = [wrote EXCEPT ![u] = IF outcome = "ok" THEN "ok" ELSE "failed"]
    /\ pc' = [pc EXCEPT ![u] = "broadcast"]
    /\ snapshot' = [snapshot EXCEPT ![u] = active_connections]
    /\ it' = [it EXCEPT ![u] = 0]
    /\ notified' = [notified EXCEPT ![u] = 0]
    /\ UNCHANGED <<response, filename, delivered, failed>>
    /\ UNCHANGED <<connVars, deviceVars, playerVars>>

\* open(file_path, "wb") and f.write(contents), with no await in between: the
\* file is written whole ("ok"), or open raises and the file is untouched
\* ("open_failed"), or open truncates it and write raises ("write_failed").
\* An exception goes to the handler's except branch: no broadcast.
\* On success the handler sets notified = 0 and starts the loop.
UploadWrite(u, outcome) ==
    /\ pc[u] = "write"
    /\ media' = [media EXCEPT ![filename[u]] =
                    CASE outcome = "ok" -> u
                      [] outcome = "open_failed" -> @
                      [] outcome = "write_failed" -> "partial"]
    /\ wrote' = [wrote EXCEPT ![u] = IF outcome = "ok" THEN "ok" ELSE "failed"]
    /\ IF outcome = "ok"
       THEN /\ pc' = [pc EXCEPT ![u] = "broadcast"]
            /\ snapshot' = [snapshot EXCEPT ![u] = active_connections]
            /\ it' = [it EXCEPT ![u] = 0]
            /\ notified' = [notified EXCEPT ![u] = 0]
            /\ UNCHANGED response
       ELSE /\ pc' = [pc EXCEPT ![u] = "done"]
            /\ response' = [response EXCEPT ![u] = ErrorResponse]
            /\ UNCHANGED <<snapshot, it, notified>>
    /\ UNCHANGED <<filename, delivered, failed>>
    /\ UNCHANGED <<connVars, deviceVars, playerVars>>

\* The connection the list iterator yields next: the iterator holds an index
\* into the live list, and is exhausted when the index reaches its length.
HasNext(u) == it[u] < Len(active_connections)
NextWs(u) == active_connections[it[u] + 1]

\* One iteration of "for ws in active_connections": the iterator yields ws,
\* send_text succeeds on an open connection (the coroutine may be suspended
\* in it), then notified += 1.
SendText(u) ==
    /\ pc[u] = "broadcast"
    /\ HasNext(u)
    /\ channel[NextWs(u)] = "open"
    /\ it' = [it EXCEPT ![u] = @ + 1]
    /\ delivered' = [delivered EXCEPT ![u] = Append(@, NextWs(u))]
    /\ notified' = [notified EXCEPT ![u] = @ + 1]
    /\ UNCHANGED <<media, pc, filename, response, wrote, failed, snapshot>>
    /\ UNCHANGED <<connVars, deviceVars, playerVars>>

\* send_text on a closed connection raises: the exception leaves the loop and
\* is caught by the handler's except branch, which returns the error response.
SendFails(u) ==
    /\ pc[u] = "broadcast"
    /\ HasNext(u)
    /\ channel[NextWs(u)] # "open"
    /\ failed' = [failed EXCEPT ![u] = @ \cup {NextWs(u)}]
    /\ pc' = [pc EXCEPT ![u] = "done"]
    /\ response' = [response EXCEPT ![u] = ErrorResponse]
    /\ UNCHANGED <<media, filename, it, notified, wrote, delivered, snapshot>>
    /\ UNCHANGED <<connVars, deviceVars, playerVars>>

\* The iterator is exhausted: the handler returns the success response.
BroadcastDone(u) ==
    /\ pc[u] = "broadcast"
    /\ ~HasNext(u)
    /\ pc' = [pc EXCEPT ![u] = "done"]
    /\ response' = [response EXCEPT ![u] =
                       [status |-> "uploaded", notified_screens |-> notified[u]]]
    /\ UNCHANGED <<media, filename, it, notified, wrote, delivered, failed, snapshot>>
    /\ UNCHANGED <<connVars, deviceVars, playerVars>>

WriteOutcomes == {"ok", "open_failed", "write_failed"}

NextServer ==
    \/ \E w \in WebSockets : Connect(w)
    \/ \E w \in WebSockets : ReceiveText(w)
    \/ \E w \in WebSockets : ClientDisconnect(w)
    \/ \E w \in WebSockets : HandleDisconnect(w)
    \/ \E w \in WebSockets : HandleError(w)
    \/ \E u \in Uploads, f \in Filenames : UploadStart(u, f)
    \/ \E u \in Uploads, o \in WriteOutcomes : UploadWrite(u, o)
    \/ \E u \in Uploads : SendText(u)
    \/ \E u \in Uploads : SendFails(u)
    \/ \E u \in Uploads : BroadcastDone(u)

\* ---- the registry alone: the handlers' removals on every list
\* The lists of distinct connections.
Registries ==
    {reg \in UNION {[1..n -> WebSockets] : n \in 0..MaxConns} :
        \A i, j \in DOMAIN reg : i # j => reg[i] # reg[j]}

InitRegistry ==
    /\ active_connections \in Registries
    /\ handler = [w \in WebSockets |-> "running"]
    /\ channel \in [WebSockets -> {"open", "closed"}]
    /\ unregistered = [w \in WebSockets |-> "no"]
    /\ media = [f \in Filenames |-> "absent"]
    /\ pc = [u \in Uploads |-> "idle"]
    /\ filename = [u \in Uploads |-> "ad1.png"]
    /\ it = [u \in Uploads |-> 0]
    /\ notified = [u \in Uploads |-> 0]
    /\ response = [u \in Uploads |-> [status |-> "pending", notified_screens |-> NoKey]]
    /\ wrote = [u \in Uploads |-> "pending"]
    /\ delivered = [u \in Uploads |-> <<>>]
    /\ failed = [u \in Uploads |-> {}]
    /\ snapshot = [u \in Uploads |-> <<>>]

NextRegistry ==
    \E w \in WebSockets :
        \/ ClientDisconnect(w)
        \/ HandleDisconnect(w)
        \/ HandleError(w)

\* ==================================================== src/fake_pi.py: device
\* Text is a sequence of one-character strings.
Prefix == <<"N", "E", "W", "_", "C", "O", "N", "T", "E", "N", "T", ":">>
Whitespace == {" "}

\* str.startswith(p)
StartsWith(s, p) == Len(s) >= Len(p) /\ SubSeq(s, 1, Len(p)) = p

\* p in s
Contains(s, p) ==
    \E i \in 1..(Len(s) - Len(p) + 1) : SubSeq(s, i, i + Len(p) - 1) = p

\* str.replace(old, ""): every non-overlapping occurrence of old, found from
\* the left, is removed.
RECURSIVE Replace(_, _)
Replace(s, old) ==
    IF Len(s) < Len(old) THEN s
    ELSE IF SubSeq(s, 1, Len(old)) = old
         THEN Replace(SubSeq(s, Len(old) + 1, Len(s)), old)
         ELSE <<Head(s)>> \o Replace(Tail(s), old)

\* str.strip(): leading and trailing whitespace is removed.
RECURSIVE LStrip(_)
LStrip(s) ==
    IF s # <<>> /\ Head(s) \in Whitespace THEN LStrip(Tail(s)) ELSE s

RECURSIVE RStrip(_)
RStrip(s) ==
    IF s # <<>> /\ s[Len(s)] \in Whitespace
    THEN RStrip(SubSeq(s, 1, Len(s) - 1))
    ELSE s

Strip(s) == LStrip(RStrip(s))

\* A mutant of IsNewContent: the prefix is looked for anywhere in the message.
IsNewContentAnywhere(message) == Contains(message, Prefix)

\* on_message's test: message.startswith("NEW_CONTENT:")
IsNewContent(message) == StartsWith(message, Prefix)

\* on_message's filename: message.replace("NEW_CONTENT:", "").strip()
ParseFilename(message) == Strip(Replace(message, Prefix))

\* The body the server streams for a version of a file, as the chunks
\* iter_content yields; a chunk may be empty.
Body(v) == << <<v>>, <<>>, <<v, v>> >>

\* The bytes download_file has written after the first k chunks: an empty
\* chunk is skipped.
RECURSIVE Written(_, _)
Written(body, k) ==
    IF k = 0 THEN <<>> ELSE Written(body, k - 1) \o body[k]

\* The variant knows stored files only, not the directory.
ExistsFileOnly(store, name) == name \in DOMAIN store

\* os.path.exists(os.path.join(STORAGE_DIR, name)): a stored file, or, for the
\* empty name, the storage directory itself.
Exists(store, name) == name = <<>> \/ name \in DOMAIN store

\* A mutant of CacheHit: no cache check.
CacheHitNever(store, name) == FALSE

\* A mutant of CacheHit: an empty file does not count as cached.
CacheHitNonEmpty(store, name) ==
    name = <<>> \/ (name \in DOMAIN store /\ store[name] # <<>>)

\* download_file's cache check: "if os.path.exists(local_path): return"
CacheHit(store, name) == Exists(store, name)

\* What can happen to a download: it succeeds; requests.get times out or
\* raises another error; raise_for_status raises; open raises; the stream
\* breaks after "at" chunks were handled.
Fault(kind, at) == [kind |-> kind, at |-> at]
Outcomes ==
    {Fault(k, 0) : k \in {"ok", "timeout", "error_get", "http_error", "open_failed"}}
        \cup {Fault("stream_failed", k) : k \in 0..(Len(Body(1)) - 1)}

\* The outcomes the server allows: a name it does not serve is a 404, so the
\* download ends at raise_for_status at the latest.
Possible(rem, name, o) ==
    name \in DOMAIN rem \/ o.kind \in {"timeout", "error_get", "http_error"}

\* download_file(filename) under outcome o: the storage it leaves, the HTTP
\* requests it made and how it ended.
DownloadFile(store, rem, name, o) ==
    IF CacheHit(store, name)
    THEN [storage |-> store, requests |-> 0, outcome |-> "hit"]
    ELSE CASE o.kind \in {"timeout", "error_get", "http_error", "open_failed"} ->
                [storage |-> store, requests |-> 1, outcome |-> o.kind]
           [] o.kind = "stream_failed" ->
                [storage |-> (name :> Written(Body(rem[name]), o.at)) @@ store,
                 requests |-> 1, outcome |-> o.kind]
           [] o.kind = "ok" ->
                [storage |-> (name :> Written(Body(rem[name]), Len(Body(rem[name])))) @@ store,
                 requests |-> 1, outcome |-> o.kind]

NoCall == [msg |-> <<>>, kind |-> "none", filename |-> <<>>, requests |-> 0,
           outcome |-> "none", pre |-> <<>>]

\* on_message(ws, message), with the download it may make under outcome o.
OnMessage(message, o) ==
    /\ prev' = last
    /\ ncalls' = ncalls + 1
    /\ IF IsNewContent(message)
       THEN LET name == ParseFilename(message)
                r == DownloadFile(storage, remote, name, o)
            IN /\ Possible(remote, name, o)
               /\ storage' = r.storage
               /\ last' = [msg |-> message, kind |-> "NewContent", filename |-> name,
                           requests |-> r.requests, outcome |-> r.outcome,
                           pre |-> storage]
               /\ firstWrite' =
                     IF name \in DOMAIN r.storage /\ name \notin DOMAIN firstWrite
                     THEN (name :> r.storage[name]) @@ firstWrite
                     ELSE firstWrite
       ELSE /\ o = Fault("ok", 0)
            /\ last' = [msg |-> message, kind |-> "Unknown", filename |-> <<>>,
                        requests |-> 0, outcome |-> "ignored", pre |-> storage]
            /\ UNCHANGED <<storage, firstWrite>>
    /\ UNCHANGED remote
    /\ UNCHANGED <<serverVars, playerVars>>

\* The server's side of the device: a file is uploaded (again) under a name,
\* and /media serves the new version from then on.
Publish(name) ==
    /\ remote' = IF name \in DOMAIN remote
                 THEN [remote EXCEPT ![name] = @ + 1]
                 ELSE (name :> 1) @@ remote
    /\ name \in DOMAIN remote => remote[name] < MaxVersion
    /\ UNCHANGED <<storage, ncalls, last, prev, firstWrite>>
    /\ UNCHANGED <<serverVars, playerVars>>

\* The names the server's files have in the device's runs.
Names == {<<"a">>, <<"b">>}

\* What the device is sent in a run: the server's notifications, and a text
\* that is none.
ServerMessages == {Prefix \o n : n \in Names} \cup {<<"a">>}

\* Arbitrary inbound text: up to MaxPieces pieces, put together.
Pieces == {Prefix, <<"a">>, <<" ">>, <<"N">>}

RECURSIVE Concats(_)
Concats(n) ==
    IF n = 0 THEN {<<>>}
    ELSE LET S == Concats(n - 1) IN S \cup {p \o t : p \in Pieces, t \in S}

AllMessages == Concats(MaxPieces)

\* The device after boot: an empty storage directory, nothing handled.
InitDevice ==
    /\ storage = <<>>
    /\ remote = <<>>
    /\ ncalls = 0
    /\ last = NoCall
    /\ prev = NoCall
    /\ firstWrite = <<>>

\* The device handles one of the server's messages.
Receive(m, o) ==
    /\ ncalls < MaxCalls
    /\ OnMessage(m, o)

NextDevice ==
    \/ \E m \in ServerMessages, o \in Outcomes : Receive(m, o)
    \/ \E n \in Names : Publish(n)

\* A device that holds one downloaded file, or none, and is sent one message.
InitParser ==
    /\ remote = (<<"a">> :> 1)
    /\ storage \in {<<>>, (<<"a">> :> Written(Body(1), 3))}
    /\ firstWrite = storage
    /\ ncalls = 0
    /\ last = NoCall
    /\ prev = NoCall

\* The device handles the one message.
ReceiveOnce(m, o) ==
    /\ ncalls = 0
    /\ OnMessage(m, o)

NextParser == \E m \in AllMessages, o \in Outcomes : ReceiveOnce(m, o)

\* ================================================ src/play_server.py: player
\* The least number of a set.
Min(S) == CHOOSE x \in S : \A y \in S : x <= y

\* The played_at of an entry that has no such key.
NoStamp == 0

\* A file name is <<stem, extension>>. str.lower() of the extensions in use.
Lower(ext) == IF ext = ".JPG" THEN ".jpg" ELSE ext

\* The extensions scan_local_media accepts.
ImageExts == {".jpg", ".jpeg", ".png", ".gif"}
VideoExts == {".mp4", ".avi", ".mov", ".mkv"}

\* The names the two folders may hold, in the order os.listdir gives them.
ListOrder == << <<"a", ".png">>, <<"b", ".JPG">>, <<"n", ".txt">>, <<"v", ".mp4">> >>
ImageNames == {<<"a", ".png">>, <<"b", ".JPG">>}
\* A file of the images folder that is no media; it stays there.
Notes == {<<"n", ".txt">>}
VideoNames == {<<"v", ".mp4">>}

\* os.listdir(folder)
ListDir(dir) == SelectSeq(ListOrder, LAMBDA f : f \in dir)

\* A media dictionary: {"path": os.path.join(folder, name), "type", "name"};
\* a queue entry has "played" and, once marked, "played_at" as well.
Media(folder, name, type) ==
    [obj |-> TRUE, path |-> <<folder>> \o name, type |-> type, name |-> name,
     played |-> FALSE, played_at |-> NoStamp]

\* An element that is no dictionary (a number in the array; a key of a JSON
\* object or a character of a JSON string, which is what iterating them
\* yields): it has no get.
NonObject ==
    [obj |-> FALSE, path |-> <<>>, type |-> "none", name |-> <<>>,
     played |-> FALSE, played_at |-> NoStamp]

\* scan_local_media(): the images with an image extension, then the videos
\* with a video extension.
ScanLocalMedia(images, videos) ==
    LET imgs == SelectSeq(ListDir(images), LAMBDA f : Lower(f[2]) \in ImageExts)
        vids == SelectSeq(ListDir(videos), LAMBDA f : Lower(f[2]) \in VideoExts)
    IN [i \in 1..Len(imgs) |-> Media("images", imgs[i], "image")]
          \o [i \in 1..Len(vids) |-> Media("videos", vids[i], "video")]

\* What the queue file holds: it is absent, or is no JSON ("garbage"), or is
\* JSON of a kind (null, number, string, object, array) with its elements.
QFile(kind, items) == [kind |-> kind, items |-> items]

\* load_media_queue(): the parsed value, as the elements iterating it yields;
\* [] when the file is absent, json.load raises, or len(queue) raises (null, a
\* number).
LoadMediaQueue(file) ==
    IF file.kind \in {"array", "object", "string"} THEN file.items ELSE <<>>

\* What can happen to mark_as_played_in_queue's write: it succeeds; open
\* raises and the file is untouched; json.dump raises after open truncated it.
MarkOutcomes == {"ok", "open_failed", "write_failed"}

\* The variant flips the flag of the entry it finds.
MarkAsPlayedToggle(file, path, now, io) ==
    LET hits == {i \in DOMAIN file.items : file.items[i].path = path}
    IN IF hits = {} THEN file
       ELSE QFile(file.kind, [file.items EXCEPT ![Min(hits)] =
                                [@ EXCEPT !.played = ~@, !.played_at = now]])

\* mark_as_played_in_queue(media_info) at time now: the file it leaves. The
\* file is read again; the first entry with media_info's path gets played and
\* played_at; the whole value is written back. Any exception is swallowed.
MarkAsPlayedInQueue(file, path, now, io) ==
    IF file.kind \notin {"array", "object", "string"} THEN file
    ELSE LET stops == {i \in DOMAIN file.items :
                          ~file.items[i].obj \/ file.items[i].path = path}
             marked == IF stops = {} THEN file.items
                       ELSE [file.items EXCEPT ![Min(stops)] =
                                [@ EXCEPT !.played = TRUE, !.played_at = now]]
         IN IF stops # {} /\ ~file.items[Min(stops)].obj THEN file
            ELSE CASE io = "ok" -> QFile(file.kind, marked)
                   [] io = "open_failed" -> file
                   [] io = "write_failed" -> QFile("garbage", <<>>)

\* The positions of the entries that are not played.
Unplayed(q) == {i \in DOMAIN q : ~q[i].played}

\* The two tests on the queue, "if queue_media:" and "if unplayed:"; the
\* variant never finds an unplayed entry.
HasUnplayedNever(q) == FALSE
HasUnplayed(q) == q # <<>> /\ Unplayed(q) # {}

\* The sequential advance: (current_index + 1) % len(local_media); the
\* variant advances without the modulus.
NextIndexNoWrap(idx, n) == idx + 1
NextIndex(idx, n) == (idx + 1) % n

\* The exceptions get_next_media lets out: m.get on an element that is no
\* dictionary, local_media[self.current_index] past the end of the list.
Raised == {"AttributeError", "IndexError"}

\* What get_next_media returns or raises, and the state it leaves.
Result(kind, pos, m, file, idx) ==
    [kind |-> kind, pos |-> pos, media |-> m, file |-> file, index |-> idx]

\* get_next_media() on a queue file and a scan result, at time now; pick is
\* random.choice's choice, io the outcome of the queue file's write.
GetNextMedia(file, cands, mode, idx, pick, now, io) ==
    LET q == LoadMediaQueue(file)
    IN IF q # <<>> /\ \E i \in DOMAIN q : ~q[i].obj
       THEN Result("AttributeError", 0, NonObject, file, idx)
       ELSE IF HasUnplayed(q)
       THEN LET i == Min(Unplayed(q))
            IN Result("queue", i, q[i],
                      MarkAsPlayedInQueue(file, q[i].path, now, io), idx)
       ELSE IF cands = <<>>
       THEN Result("none", 0, NonObject, file, idx)
       ELSE IF mode = "sequential"
       THEN IF idx >= Len(cands)
            THEN Result("IndexError", 0, NonObject, file, idx)
            ELSE Result("local", idx + 1, cands[idx + 1], file,
                        NextIndex(idx, Len(cands)))
       ELSE Result("local", pick, cands[pick], file, idx)

\* The choices random.choice has.
Picks(cands) == IF cands = <<>> THEN {1} ELSE DOMAIN cands

\* The entries the producer puts in the queue.
QueueMedia ==
    {Media("images", <<"q", ".png">>, "image"),
     Media("videos", <<"w", ".mp4">>, "video")}

\* Marks an attribute the player object does not have (hasattr is false).
NoAttr == -1

\* mark_as_played_in_queue is not between its read and its write.
NoRead == [kind |-> "none", items |-> <<>>]

\* No quit input consumed yet.
NoQuit == [where |-> "none", rounds |-> 0]

\* No call yet.
NoSel == [kind |-> "nocall", pos |-> 0, media |-> NonObject, io |-> "ok"]

\* The position whose played_at the call at time now has set, if any.
Stamped(file, now) ==
    {i \in DOMAIN file.items : file.items[i].played_at = now}

\* One call of get_next_media: the queue file and the index it leaves, and
\* the record of the call.
Select(pick, io) ==
    LET cands == ScanLocalMedia(images_dir, videos_dir)
        now == rounds + 1
        r == GetNextMedia(queue_file, cands, play_mode, current_index, pick, now, io)
    IN /\ rounds' = now
       /\ queue_file' = r.file
       /\ current_index' = r.index
       /\ sel' = [kind |-> r.kind, pos |-> r.pos, media |-> r.media,
                  io |-> IF r.kind = "queue" THEN io ELSE "ok"]
       /\ stamps' = [i \in DOMAIN stamps |->
                        IF i \in Stamped(r.file, now) THEN stamps[i] + 1 ELSE stamps[i]]
       /\ returned' = [i \in DOMAIN returned |->
                        IF r.kind = "queue" /\ r.pos = i
                        THEN returned[i] + 1 ELSE returned[i]]

\* The player after __init__ and the configuration: nothing in the folders,
\* no queue file, the defaults of __init__.
InitPlayer ==
    /\ queue_file = QFile("absent", <<>>)
    /\ images_dir = {}
    /\ videos_dir = {}
    /\ play_mode = "sequential"
    /\ loop = TRUE
    /\ current_index = 0
    /\ display_time = [image |-> 5, video |-> 10]
    /\ running = TRUE
    /\ stage = "idle"
    /\ events = <<>>
    /\ keys = 0
    /\ rendered = "none"
    /\ quit_seen = NoQuit
    /\ pending = NoRead
    /\ last_queue_check = NoAttr
    /\ ticks = 0
    /\ rounds = 0
    /\ sel = NoSel
    /\ stamps = [i \in 1..MaxQueue |-> 0]
    /\ returned = [i \in 1..MaxQueue |-> 0]
    /\ trail = <<>>

loopVars == <<play_mode, loop, display_time, running, events, keys, rendered,
              quit_seen, pending, last_queue_check, ticks>>
otherVars == <<serverVars, deviceVars>>

\* ---- the selection alone: get_next_media called again and again, while the
\* producer and the folders change
\* The queue files a run may start from.
StartQueueFiles ==
    {QFile("absent", <<>>), QFile("garbage", <<>>), QFile("null", <<>>),
     QFile("number", <<>>), QFile("object", <<>>), QFile("object", <<NonObject>>),
     QFile("string", <<NonObject>>), QFile("array", <<>>),
     QFile("array", <<NonObject>>),
     QFile("array", <<Media("images", <<"q", ".png">>, "image"), NonObject>>)}

InitSelect ==
    /\ queue_file \in StartQueueFiles
    /\ images_dir = Notes
    /\ videos_dir = {}
    /\ play_mode \in {"sequential", "random"}
    /\ loop = TRUE
    /\ current_index = 0
    /\ display_time = [image |-> 5, video |-> 10]
    /\ running = TRUE
    /\ stage = "idle"
    /\ events = <<>>
    /\ keys = 0
    /\ rendered = "none"
    /\ quit_seen = NoQuit
    /\ pending = NoRead
    /\ last_queue_check = NoAttr
    /\ ticks = 0
    /\ rounds = 0
    /\ sel = NoSel
    /\ stamps = [i \in 1..MaxQueue |-> 0]
    /\ returned = [i \in 1..MaxQueue |-> 0]
    /\ trail = <<>>

\* get_next_media is called; an exception it raises ends the player.
Call(pick, io) ==
    /\ stage = "idle"
    /\ pick \in Picks(ScanLocalMedia(images_dir, videos_dir))
    /\ rounds < MaxRounds
    /\ Select(pick, io)
    /\ stage' = IF sel'.kind \in Raised THEN "crashed" ELSE "idle"
    /\ UNCHANGED <<images_dir, videos_dir, loopVars, otherVars>>

CallGetNextMedia(pick, io) ==
    /\ Call(pick, io)
    /\ UNCHANGED trail

\* The producer (the upload pipeline) appends an entry to the queue file,
\* creating the file when there is none.
ProducerAppend(m) ==
    /\ queue_file.kind \in {"absent", "array"}
    /\ \A i \in DOMAIN queue_file.items : queue_file.items[i].obj
    /\ Len(queue_file.items) < MaxQueue
    /\ queue_file' = QFile("array", Append(queue_file.items, m))
    /\ UNCHANGED <<images_dir, videos_dir, current_index, stage, rounds, sel,
                   stamps, returned, trail, loopVars, otherVars>>

\* One file more or less in one of the folders.
OneChange(old, new) ==
    \E f \in (old \cup new) : new = old \cup {f} \/ new = old \ {f}

\* A file appears in, or goes from, a folder.
FolderChange(images, videos) ==
    /\ \/ OneChange(images_dir \ Notes, images) /\ videos = videos_dir
       \/ OneChange(videos_dir, videos) /\ images = images_dir \ Notes
    /\ images_dir' = images \cup Notes
    /\ videos_dir' = videos
    /\ UNCHANGED <<queue_file, current_index, stage, rounds, sel, stamps,
                   returned, trail, loopVars, otherVars>>

NextSelect ==
    \/ \E pick \in DOMAIN ListOrder, io \in MarkOutcomes : CallGetNextMedia(pick, io)
    \/ \E m \in QueueMedia : ProducerAppend(m)
    \/ \E images \in SUBSET ImageNames, videos \in SUBSET VideoNames :
          FolderChange(images, videos)

\* ---- the sequential cycle: get_next_media called again and again in
\* sequential mode, nothing else happening
\* The queue files with no unplayed entry.
PlayedQueueFiles ==
    {QFile("absent", <<>>), QFile("array", <<>>),
     QFile("array", <<[Media("images", <<"q", ".png">>, "image") EXCEPT !.played = TRUE]>>)}

InitCycle ==
    /\ queue_file \in PlayedQueueFiles
    /\ images_dir \in {names \cup Notes : names \in SUBSET ImageNames}
    /\ videos_dir \in SUBSET VideoNames
    /\ play_mode = "sequential"
    /\ loop = TRUE
    /\ current_index \in 0..Len(ListOrder)
    /\ current_index < Len(ScanLocalMedia(images_dir, videos_dir))
    /\ display_time = [image |-> 5, video |-> 10]
    /\ running = TRUE
    /\ stage = "idle"
    /\ events = <<>>
    /\ keys = 0
    /\ rendered = "none"
    /\ quit_seen = NoQuit
    /\ pending = NoRead
    /\ last_queue_check = NoAttr
    /\ ticks = 0
    /\ rounds = 0
    /\ sel = NoSel
    /\ stamps = [i \in 1..MaxQueue |-> 0]
    /\ returned = [i \in 1..MaxQueue |-> 0]
    /\ trail = <<>>

\* get_next_media is called; trail records the index it found and the name
\* it returned.
CallInCycle(pick, io) ==
    /\ Call(pick, io)
    /\ trail' = Append(trail, [index |-> current_index, name |-> sel'.media.name])

NextCycle ==
    \E pick \in DOMAIN ListOrder, io \in MarkOutcomes : CallInCycle(pick, io)

\* ---- mark_as_played_in_queue alone: called again and again on one path
\* The entries of a queue file: an entry of the producer, played or not.
Entries ==
    QueueMedia \cup {[m EXCEPT !.played = TRUE] : m \in QueueMedia}

\* The queue files of at most MaxQueue entries, and the corrupt ones.
MarkQueueFiles ==
    StartQueueFiles \cup
    {QFile("array", q) : q \in UNION {[1..n -> Entries] : n \in 0..MaxQueue}}

InitMark ==
    /\ queue_file \in MarkQueueFiles
    /\ sel \in {[kind |-> "target", pos |-> 0, media |-> m, io |-> "ok"] : m \in QueueMedia}
    /\ images_dir = {}
    /\ videos_dir = {}
    /\ play_mode = "sequential"
    /\ loop = TRUE
    /\ current_index = 0
    /\ display_time = [image |-> 5, video |-> 10]
    /\ running = TRUE
    /\ stage = "idle"
    /\ events = <<>>
    /\ keys = 0
    /\ rendered = "none"
    /\ quit_seen = NoQuit
    /\ pending = NoRead
    /\ last_queue_check = NoAttr
    /\ ticks = 0
    /\ rounds = 0
    /\ stamps = [i \in 1..MaxQueue |-> 0]
    /\ returned = [i \in 1..MaxQueue |-> 0]
    /\ trail = <<>>

\* mark_as_played_in_queue(sel.media); sel.io keeps whether every write so
\* far succeeded.
MarkPlayed(io) ==
    /\ rounds < MaxRounds
    /\ rounds' = rounds + 1
    /\ queue_file' = MarkAsPlayedInQueue(queue_file, sel.media.path, rounds + 1, io)
    /\ sel' = [sel EXCEPT !.io = IF @ = "ok" THEN io ELSE @]
    /\ stamps' = [i \in DOMAIN stamps |->
                     IF i \in Stamped(queue_file', rounds + 1)
                     THEN stamps[i] + 1 ELSE stamps[i]]
    /\ UNCHANGED <<images_dir, videos_dir, current_index, stage, returned, trail,
                   loopVars, otherVars>>

NextMark == \E io \in MarkOutcomes : MarkPlayed(io)

\* ---- run: the loop of the player and its inputs
\* The inputs pygame reports: the window's close button and the keys run and
\* wait_with_events look at.
Keys == {"QUIT", "ESCAPE", "SPACE", "PLUS", "MINUS", "r", "s", "l"}

Least(a, b) == IF a <= b THEN a ELSE b
Most(a, b) == IF a >= b THEN a ELSE b

\* The body of "for event in pygame.event.get()" in run, on one event: the
\* settings c = [running, display_time, play_mode, loop] it leaves.
OnEvent(c, key) ==
    CASE key \in {"QUIT", "ESCAPE"} -> [c EXCEPT !.running = FALSE]
      [] key = "PLUS" ->
            [c EXCEPT !.display_time =
                [image |-> Least(60, c.display_time.image + 5),
                 video |-> Least(120, c.display_time.video + 5)]]
      [] key = "MINUS" ->
            [c EXCEPT !.display_time =
                [image |-> Most(1, c.display_time.image - 5),
                 video |-> Most(2, c.display_time.video - 5)]]
      [] key = "r" -> [c EXCEPT !.play_mode = "random"]
      [] key = "s" -> [c EXCEPT !.play_mode = "sequential"]
      [] key = "l" -> [c EXCEPT !.loop = ~c.loop]
      [] OTHER -> c

\* The whole for loop of run over the events pygame.event.get() returned.
RECURSIVE OnEvents(_, _)
OnEvents(c, evs) ==
    IF evs = <<>> THEN c ELSE OnEvents(OnEvent(c, Head(evs)), Tail(evs))

\* self.played_count: nothing in the program ever assigns it.
played_count == NoAttr

\* The variant stops the playback whenever loop is off.
EndOfPassLoopOff(lp, count, n) == IF ~lp THEN "stalled" ELSE "idle"

\* The end of a pass of run, "if not self.loop and hasattr(self,
\* 'played_count')": with loop off and played_count at the number n of local
\* media or above, the player shows the waiting screen and stays in a
\* "while True" that nothing leaves; otherwise the next pass begins.
EndOfPass(lp, count, n) ==
    IF ~lp /\ count # NoAttr /\ count >= n THEN "stalled" ELSE "idle"

\* The first of the events on which wait_with_events returns, 0 if none.
FirstReturn(evs) ==
    LET hits == {i \in DOMAIN evs : evs[i] \in {"QUIT", "ESCAPE", "SPACE"}}
    IN IF hits = {} THEN 0 ELSE Min(hits)

\* The folders and queue files a run of the player starts with.
StartFolders ==
    {Notes, Notes \cup {<<"a", ".png">>}, Notes \cup ImageNames}
StartQueues ==
    {QFile("absent", <<>>),
     QFile("array", <<Media("images", <<"q", ".png">>, "image")>>)}

InitRun ==
    /\ queue_file \in StartQueues
    /\ images_dir \in StartFolders
    /\ videos_dir = {}
    /\ play_mode = "sequential"
    /\ loop = TRUE
    /\ current_index = 0
    /\ display_time = [image |-> 5, video |-> 10]
    /\ running = TRUE
    /\ stage = "idle"
    /\ events = <<>>
    /\ keys = 0
    /\ rendered = "none"
    /\ quit_seen = NoQuit
    /\ pending = NoRead
    /\ last_queue_check = NoAttr
    /\ ticks = 0
    /\ rounds = 0
    /\ sel = NoSel
    /\ stamps = [i \in 1..MaxQueue |-> 0]
    /\ returned = [i \in 1..MaxQueue |-> 0]
    /\ trail = <<>>

\* The user presses a key or closes the window.
Press(key) ==
    /\ stage \notin {"stopped", "crashed"}
    /\ keys < MaxKeys
    /\ Len(events) < MaxEvents
    /\ keys' = keys + 1
    /\ events' = Append(events, key)
    /\ UNCHANGED <<queue_file, images_dir, videos_dir, play_mode, loop, current_index,
                   display_time, running, stage, rounds, sel, stamps, returned,
                   trail, rendered, quit_seen, pending, last_queue_check, ticks,
                   otherVars>>

\* One pass of "while running" up to the point where it waits: the events are
\* handled, get_next_media is called, the media is rendered (success) or not.
Iterate(pick, io, success) ==
    /\ stage = "idle"
    /\ running
    /\ pick \in Picks(ScanLocalMedia(images_dir, videos_dir))
    /\ rounds < MaxRounds
    /\ LET c == OnEvents([running |-> running, display_time |-> display_time,
                           play_mode |-> play_mode, loop |-> loop], events)
           cands == ScanLocalMedia(images_dir, videos_dir)
           now == rounds + 1
           r == GetNextMedia(queue_file, cands, c.play_mode, current_index, pick, now, io)
       IN /\ running' = c.running
          /\ display_time' = c.display_time
          /\ play_mode' = c.play_mode
          /\ loop' = c.loop
          /\ events' = <<>>
          /\ quit_seen' = IF quit_seen = NoQuit /\ ~c.running
                           THEN [where |-> "idle", rounds |-> rounds] ELSE quit_seen
          /\ rounds' = now
          /\ queue_file' = r.file
          /\ current_index' = r.index
          /\ sel' = [kind |-> r.kind, pos |-> r.pos, media |-> r.media,
                     io |-> IF r.kind = "queue" THEN io ELSE "ok"]
          /\ stamps' = [i \in DOMAIN stamps |->
                           IF i \in Stamped(r.file, now) THEN stamps[i] + 1 ELSE stamps[i]]
          /\ returned' = [i \in DOMAIN returned |->
                           IF r.kind = "queue" /\ r.pos = i
                           THEN returned[i] + 1 ELSE returned[i]]
          /\ rendered' = IF r.kind \in {"queue", "local"}
                          THEN (IF success THEN "ok" ELSE "failed") ELSE "none"
          /\ stage' = CASE r.kind \in Raised -> "crashed"
                         [] r.kind = "none" -> "waiting"
                         [] OTHER -> IF success THEN "showing" ELSE "error"
    /\ UNCHANGED <<images_dir, videos_dir, keys, trail, pending, last_queue_check,
                   ticks, otherVars>>

\* "while running" finds running false: pygame.quit().
LoopExit ==
    /\ stage = "idle"
    /\ ~running
    /\ stage' = "stopped"
    /\ UNCHANGED <<queue_file, images_dir, videos_dir, current_index, rounds, sel,
                   stamps, returned, trail, loopVars, otherVars>>

\* One poll of wait_with_events that finds events: it returns on the first
\* QUIT, ESCAPE or SPACE (run ignores the value returned) and drops the rest.
WaitPoll ==
    /\ stage = "showing"
    /\ events # <<>>
    /\ events' = <<>>
    /\ LET i == FirstReturn(events)
       IN /\ stage' = IF i = 0 THEN "showing"
                      ELSE EndOfPass(loop, played_count,
                                     Len(ScanLocalMedia(images_dir, videos_dir)))
          /\ quit_seen' = IF quit_seen = NoQuit /\ i # 0 /\ events[i] # "SPACE"
                           THEN [where |-> "showing", rounds |-> rounds]
                           ELSE quit_seen
    /\ UNCHANGED <<queue_file, images_dir, videos_dir, play_mode, loop, current_index,
                   display_time, running, keys, rounds, sel, stamps, returned,
                   trail, rendered, pending, last_queue_check, ticks, otherVars>>

\* The display time, the error screen or the waiting screen is over.
TimePasses ==
    /\ stage \in {"showing", "error", "waiting"}
    /\ stage' = EndOfPass(loop, played_count,
                          Len(ScanLocalMedia(images_dir, videos_dir)))
    /\ UNCHANGED <<queue_file, images_dir, videos_dir, current_index, rounds, sel,
                   stamps, returned, trail, loopVars, otherVars>>

NextRun ==
    \/ \E key \in Keys : Press(key)
    \/ \E pick \in DOMAIN ListOrder, io \in MarkOutcomes, success \in BOOLEAN :
          Iterate(pick, io, success)
    \/ LoopExit
    \/ WaitPoll
    \/ TimePasses

\* ---- the queue file shared with the producer: mark_as_played_in_queue in
\* its two file operations, the producer appending in between
\* mark_as_played_in_queue gets as far as its write: the file is there and is
\* JSON that can be iterated, and the loop meets no element without get.
MarkReads(file, path) ==
    /\ file.kind \in {"array", "object", "string"}
    /\ LET stops == {i \in DOMAIN file.items :
                        ~file.items[i].obj \/ file.items[i].path = path}
       IN stops = {} \/ file.items[Min(stops)].obj

\* get_next_media up to the end of mark_as_played_in_queue's loop: the first
\* unplayed entry is chosen, the file is read again and the entry with its path
\* is marked in the list in memory.
BeginMark ==
    /\ stage = "idle"
    /\ pending = NoRead
    /\ rounds < MaxRounds
    /\ LET q == LoadMediaQueue(queue_file)
       IN /\ \A i \in DOMAIN q : q[i].obj
          /\ HasUnplayed(q)
          /\ MarkReads(queue_file, q[Min(Unplayed(q))].path)
          /\ pending' = MarkAsPlayedInQueue(queue_file, q[Min(Unplayed(q))].path,
                                            rounds + 1, "ok")
          /\ sel' = [kind |-> "queue", pos |-> Min(Unplayed(q)),
                     media |-> q[Min(Unplayed(q))], io |-> "ok"]
          /\ returned' = [i \in DOMAIN returned |->
                            IF i = Min(Unplayed(q)) THEN returned[i] + 1 ELSE returned[i]]
    /\ rounds' = rounds + 1
    /\ UNCHANGED <<queue_file, images_dir, videos_dir, current_index, stage, stamps,
                   trail, play_mode, loop, display_time, running, events, keys,
                   rendered, quit_seen, last_queue_check, ticks, otherVars>>

\* The rest of the call: open(queue_file, 'w') and json.dump of the list in
\* memory; get_next_media returns.
EndMark(io) ==
    /\ pending # NoRead
    /\ queue_file' = CASE io = "ok" -> pending
                        [] io = "open_failed" -> queue_file
                        [] io = "write_failed" -> QFile("garbage", <<>>)
    /\ pending' = NoRead
    /\ sel' = [sel EXCEPT !.io = io]
    /\ stamps' = [i \in DOMAIN stamps |->
                     IF i \in Stamped(queue_file', rounds)
                     THEN stamps[i] + 1 ELSE stamps[i]]
    /\ UNCHANGED <<images_dir, videos_dir, current_index, stage, rounds, returned,
                   trail, play_mode, loop, display_time, running, events, keys,
                   rendered, quit_seen, last_queue_check, ticks, otherVars>>

NextRace ==
    \/ BeginMark
    \/ \E io \in MarkOutcomes : EndMark(io)
    \/ \E m \in QueueMedia : ProducerAppend(m)

\* ---- auto_refresh_queue: the thread next to the loop of the player
\* What os.path.getmtime may return.
Mtimes == 0..MaxTicks

\* The variant starts the playlist again on every pass.
AutoRefreshRestart(mtime) ==
    /\ stage \notin {"stopped", "crashed"}
    /\ ticks < MaxTicks
    /\ ticks' = ticks + 1
    /\ current_index' = 0
    /\ UNCHANGED <<queue_file, images_dir, videos_dir, stage, rounds, sel, stamps,
                   returned, trail, play_mode, loop, display_time, running, events,
                   keys, rendered, quit_seen, pending, last_queue_check, otherVars>>

\* One pass of auto_refresh_queue's loop, after its sleep: when the object has
\* last_queue_check and the file (getmtime raises when there is none) is newer,
\* the attribute takes the file's time. Every exception is swallowed.
AutoRefreshQueue(mtime) ==
    /\ stage \notin {"stopped", "crashed"}
    /\ ticks < MaxTicks
    /\ ticks' = ticks + 1
    /\ last_queue_check' =
          IF last_queue_check = NoAttr \/ queue_file.kind = "absent" THEN last_queue_check
          ELSE IF mtime > last_queue_check THEN mtime
          ELSE last_queue_check
    /\ UNCHANGED <<queue_file, images_dir, videos_dir, current_index, stage, rounds,
                   sel, stamps, returned, trail, play_mode, loop, display_time,
                   running, events, keys, rendered, quit_seen, pending, otherVars>>

NextRefresh ==
    \/ \E mtime \in Mtimes : AutoRefreshQueue(mtime)
    \/ \E pick \in DOMAIN ListOrder, io \in MarkOutcomes, success \in BOOLEAN :
          Iterate(pick, io, success)
    \/ TimePasses

\* ---- the queue drained: get_next_media called for ever on a queue nobody
\* appends to, every write succeeding
InitDrain ==
    /\ queue_file \in {QFile("array", q) :
                          q \in UNION {[1..n -> Entries] : n \in 0..MaxQueue}}
    /\ images_dir \in StartFolders
    /\ videos_dir = {}
    /\ play_mode \in {"sequential", "random"}
    /\ loop = TRUE
    /\ current_index = 0
    /\ display_time = [image |-> 5, video |-> 10]
    /\ running = TRUE
    /\ stage = "idle"
    /\ events = <<>>
    /\ keys = 0
    /\ rendered = "none"
    /\ quit_seen = NoQuit
    /\ pending = NoRead
    /\ last_queue_check = NoAttr
    /\ ticks = 0
    /\ rounds = 0
    /\ sel = NoSel
    /\ stamps = [i \in 1..MaxQueue |-> 0]
    /\ returned = [i \in 1..MaxQueue |-> 0]
    /\ trail = <<>>

\* get_next_media is called, its write succeeds. The clock wraps after
\* MaxRounds (a time is only ever stored, never compared) and the counters of
\* the history are left alone, so that the calls can go on for ever.
DrainCall(pick) ==
    /\ stage = "idle"
    /\ pick \in Picks(ScanLocalMedia(images_dir, videos_dir))
    /\ LET now == (rounds % MaxRounds) + 1
           r == GetNextMedia(queue_file, ScanLocalMedia(images_dir, videos_dir),
                             play_mode, current_index, pick, now, "ok")
       IN /\ rounds' = now
          /\ queue_file' = r.file
          /\ current_index' = r.index
          /\ sel' = [kind |-> r.kind, pos |-> r.pos, media |-> r.media, io |-> "ok"]
          /\ stage' = IF r.kind \in Raised THEN "crashed" ELSE "idle"
    /\ UNCHANGED <<images_dir, videos_dir, stamps, returned, trail, loopVars, otherVars>>

NextDrain == \E pick \in DOMAIN ListOrder : DrainCall(pick)

\* ========================================================== specifications
\* The server alone; the device stays as booted.
InitOfServer == InitServer /\ InitDevice /\ InitPlayer
SpecServer == InitOfServer /\ [][NextServer]_vars

\* The device alone, sent the server's messages; the server stays idle.
InitOfDevice == InitServer /\ InitDevice /\ InitPlayer
SpecDevice == InitOfDevice /\ [][NextDevice]_vars

\* One arbitrary message handled by the device.
InitOfParser == InitServer /\ InitParser /\ InitPlayer
SpecParser == InitOfParser /\ [][NextParser]_vars

\* get_next_media alone, with the producer and the folders.
InitOfSelect == InitServer /\ InitDevice /\ InitSelect
SpecSelect == InitOfSelect /\ [][NextSelect]_vars

\* mark_as_played_in_queue alone, on every queue file.
InitOfMark == InitServer /\ InitDevice /\ InitMark
SpecMark == InitOfMark /\ [][NextMark]_vars

\* The handlers' removals on every list of connections.
InitOfRegistry == InitRegistry /\ InitDevice /\ InitPlayer
SpecRegistry == InitOfRegistry /\ [][NextRegistry]_vars

\* The player's loop with its inputs.
InitOfRun == InitServer /\ InitDevice /\ InitRun
SpecRun == InitOfRun /\ [][NextRun]_vars

\* The queue file between the player and the producer.
InitOfRace == InitServer /\ InitDevice /\ InitPlayer
SpecRace == InitOfRace /\ [][NextRace]_vars

\* The player's loop with the refresh thread next to it.
InitOfRefresh == InitServer /\ InitDevice /\ InitRun
SpecRefresh == InitOfRefresh /\ [][NextRefresh]_vars

\* get_next_media called for ever: the loop of run calls it in every pass.
InitOfDrain == InitServer /\ InitDevice /\ InitDrain
SpecDrain == InitOfDrain /\ [][NextDrain]_vars /\ WF_vars(NextDrain)

\* get_next_media in sequential mode on unchanging folders.
InitOfCycle == InitServer /\ InitDevice /\ InitCycle
SpecCycle == InitOfCycle /\ [][NextCycle]_vars

\* ============================================================== properties
\* How often w occurs in the list s.
Count(s, w) == Cardinality({i \in DOMAIN s : s[i] = w})

\* The connections of the list that can receive.
Live(w) == w \in Range(active_connections) /\ channel[w] = "open"

\* C1 (broadcast isolation): an upload whose file was written ends with the
\* success response, whatever sends failed; every connection that was in the
\* list when the loop started and is still registered and open has received
\* the notification, and notified_screens counts the sends that succeeded.
C1_BroadcastIsolation ==
    \A u \in Uploads :
        pc[u] = "done" /\ wrote[u] = "ok" =>
            /\ response[u].status = "uploaded"
            /\ response[u].notified_screens = Len(delivered[u])
            /\ \A w \in Range(snapshot[u]) : Live(w) => w \in Range(delivered[u])

\* C2 (snapshot iteration): when a broadcast in which no send failed has
\* ended, every connection that was registered when it started and is still
\* registered and open was sent the notification exactly once, and no
\* connection was sent it twice.
C2_SnapshotDelivery ==
    \A u \in Uploads :
        pc[u] = "done" /\ response[u].status = "uploaded" =>
            /\ \A w \in Range(snapshot[u]) : Live(w) => Count(delivered[u], w) = 1
            /\ \A w \in WebSockets : Count(delivered[u], w) <= 1

\* C3 (registry liveness): no connection whose handler has ended is still in
\* the list, and none to which a send has failed.
C3_RegistryLive ==
    \A w \in Range(active_connections) :
        /\ handler[w] # "done"
        /\ \A u \in Uploads : w \notin failed[u]

\* C4 (notified_screens): the response of an upload whose file was written
\* carries notified_screens, equal to the number of connections its broadcast
\* reached.
C4_NotifiedScreens ==
    \A u \in Uploads :
        wrote[u] = "ok" /\ pc[u] = "done" =>
            /\ response[u].notified_screens # NoKey
            /\ response[u].notified_screens = Cardinality(Range(delivered[u]))

\* C5 (write, then notify): a request has sent, or tried to send, a
\* notification only if it has written its file whole before; a request
\* whose write failed sends none.
C5_WriteBeforeNotify ==
    \A u \in Uploads :
        (delivered[u] # <<>> \/ failed[u] # {}) => wrote[u] = "ok"

\* C5's case: a request has written its file and then notified a screen.
C5_Witness ==
    \E u \in Uploads :
        wrote[u] = "ok" /\ media[filename[u]] = u /\ Len(delivered[u]) >= 2

\* The ways download_file ends without a downloaded file.
FailedOutcomes ==
    {"timeout", "error_get", "http_error", "open_failed", "stream_failed"}

\* C6 (fetch atomicity): after a download that failed there is no file under
\* the name, so that a later download of it is no cache hit.
C6_FetchAtomic ==
    last.kind = "NewContent" /\ last.outcome \in FailedOutcomes =>
        ~Exists(storage, last.filename)

\* Two on_message calls in succession were notifications of the same file.
TwoFetches ==
    /\ prev.kind = "NewContent"
    /\ last.kind = "NewContent"
    /\ prev.filename = last.filename

\* The second of two downloads was a pure cache hit, and the two made at most
\* one request.
SecondIsHit ==
    /\ prev.requests + last.requests <= 1
    /\ last.outcome = "hit"
    /\ last.requests = 0
    /\ storage = last.pre

\* C7 as claimed (cache idempotence): two downloads of a name in succession
\* make at most one request; the second is a cache hit that leaves the file
\* as it was.
C7_TwoFetchesOneRequest == TwoFetches => SecondIsHit

\* C7 as amended: the same, when the first download left a file under the
\* name (it succeeded, was itself a cache hit, or broke after creating the
\* file).
C7_TwoFetchesOneRequestIfStored ==
    TwoFetches /\ Exists(last.pre, last.filename) => SecondIsHit

\* C7's case: a download that succeeded, then a notification of the same file.
C7_Witness ==
    /\ TwoFetches
    /\ prev.outcome = "ok"
    /\ prev.requests = 1
    /\ last.outcome = "hit"
    /\ storage[last.filename] = Written(Body(1), 3)

\* C8 (cache entries are immutable): a download of a name that exists in the
\* storage makes no request and leaves the storage as it was; and every file
\* still has the bytes its first write left in it.
C8_CacheImmutable ==
    /\ last.kind = "NewContent" /\ Exists(last.pre, last.filename) =>
          /\ last.requests = 0
          /\ last.outcome = "hit"
          /\ storage = last.pre
    /\ \A n \in DOMAIN firstWrite :
          n \in DOMAIN storage /\ storage[n] = firstWrite[n]

\* C8's case: the file was downloaded, the server then published a changed
\* version under the name, and the device was notified again.
C8_Witness ==
    /\ last.kind = "NewContent"
    /\ last.outcome = "hit"
    /\ last.filename \in DOMAIN firstWrite
    /\ firstWrite[last.filename] = Written(Body(1), 3)
    /\ last.filename \in DOMAIN remote
    /\ remote[last.filename] = 2
    /\ storage[last.filename] = Written(Body(1), 3)

\* The message without its first Len(Prefix) characters.
Remainder(message) == SubSeq(message, Len(Prefix) + 1, Len(message))

\* C9 (parser): the file name of a message that starts with the prefix is the
\* rest of the message after that one prefix, stripped.
C9_ParserRemainder ==
    last.kind = "NewContent" => last.filename = Strip(Remainder(last.msg))

\* C10 (unknown messages): a message that does not start with the prefix is
\* classified Unknown; it makes no request and leaves the storage as it was.
C10_UnknownIgnored ==
    last.kind # "none" /\ ~StartsWith(last.msg, Prefix) =>
        /\ last.kind = "Unknown"
        /\ last.requests = 0
        /\ storage = last.pre

\* C10's case: a message that holds the prefix, but not at its start, was
\* handled by a device that has a file stored.
C10_Witness ==
    /\ last.kind = "Unknown"
    /\ Contains(last.msg, Prefix)
    /\ ~StartsWith(last.msg, Prefix)
    /\ storage # <<>>
    /\ storage = last.pre

\* C11 (SelectNext step 1): when a call returns a queue entry and its write
\* of the queue file succeeds, the entry at the returned position is played in
\* the stored queue, and so is every entry before it (it was the first
\* unplayed one).
C11_ReturnedEntryMarked ==
    (sel.kind = "queue" /\ sel.io = "ok") =>
        /\ sel.pos \in DOMAIN queue_file.items
        /\ \A j \in 1..sel.pos : queue_file.items[j].played

\* C12 (played-flag monotonicity): every queue entry has had played and
\* played_at set at most once.
C12_StampedOnce ==
    \A i \in DOMAIN stamps : stamps[i] <= 1

\* C13 (selection priority): a call made when the queue file holds entries of
\* which one is unplayed returns a queue entry, whatever the mode, the index
\* and the folders; a call that returns a local candidate found no unplayed
\* entry in the queue.
C13_QueuePriority ==
    [][\A pick \in DOMAIN ListOrder, io \in MarkOutcomes :
          CallGetNextMedia(pick, io) =>
              LET q == LoadMediaQueue(queue_file)
                  entries == \A i \in DOMAIN q : q[i].obj
              IN /\ (entries /\ Unplayed(q) # {}) => sel'.kind = "queue"
                 /\ sel'.kind = "local" => (entries /\ Unplayed(q) = {})]_vars

\* A queue entry was returned after the sequential index had advanced, with
\* local candidates in the folders.
C13_Witness ==
    /\ sel.kind = "queue"
    /\ current_index > 0
    /\ ScanLocalMedia(images_dir, videos_dir) # <<>>

\* The two files have the same entries in the same order, up to played_at.
SameEntries(f, g) ==
    /\ f.kind = g.kind
    /\ Len(f.items) = Len(g.items)
    /\ \A i \in DOMAIN f.items :
          /\ f.items[i].obj = g.items[i].obj
          /\ f.items[i].path = g.items[i].path
          /\ f.items[i].type = g.items[i].type
          /\ f.items[i].name = g.items[i].name
          /\ f.items[i].played = g.items[i].played

\* C14 (MarkPlayed idempotence): a second or later call on the same path,
\* made after calls whose writes succeeded and succeeding itself, leaves the
\* entries, their order, their path, type and name and their played flags as
\* they were, and the first entry with the path is played.
C14_MarkIdempotent ==
    [][(MarkPlayed("ok") /\ rounds >= 1 /\ sel.io = "ok") =>
          /\ SameEntries(queue_file, queue_file')
          /\ LET q == queue_file'.items
                 hits == {i \in DOMAIN q : q[i].path = sel.media.path}
             IN (queue_file'.kind = "array" /\ hits # {}
                   /\ \A i \in DOMAIN q : q[i].obj) => q[Min(hits)].played]_vars

\* Two calls have marked the same entry of a queue that holds the path twice.
C14_Witness ==
    /\ sel.kind = "target"
    /\ sel.io = "ok"
    /\ \E i \in DOMAIN stamps : stamps[i] >= 2
    /\ Cardinality({i \in DOMAIN queue_file.items :
                       queue_file.items[i].path = sel.media.path}) >= 2

\* The queue file is absent, unparsable or no array of entries.
NotEntries(file) ==
    file.kind # "array" \/ \E i \in DOMAIN file.items : ~file.items[i].obj

\* C15 (queue corruption is never fatal): a call made when the queue file is
\* absent, unparsable or no array of entries takes nothing from the queue,
\* lets no exception of the queue out, and the player keeps running.
C15_CorruptionNotFatal ==
    [][\A pick \in DOMAIN ListOrder, io \in MarkOutcomes :
          (CallGetNextMedia(pick, io) /\ NotEntries(queue_file)) =>
              /\ sel'.kind \notin {"queue", "AttributeError"}
              /\ stage' = "crashed" => sel'.kind = "IndexError"]_vars

\* C18 (sequential index safety): a sequential call that reaches a non-empty
\* local scan returns a candidate of that scan and leaves current_index within
\* the scanned list.
C18_SequentialIndexSafe ==
    [][\A pick \in DOMAIN ListOrder, io \in MarkOutcomes :
          LET cands == ScanLocalMedia(images_dir, videos_dir)
          IN (/\ CallGetNextMedia(pick, io)
              /\ play_mode = "sequential"
              /\ sel'.kind \notin {"queue", "AttributeError"}
              /\ cands # <<>>) =>
                 /\ sel'.kind = "local"
                 /\ sel'.pos \in DOMAIN cands
                 /\ current_index' \in 0..(Len(cands) - 1)]_vars

\* C19 (sequential wraparound): on unchanging folders that yield n
\* candidates, with no unplayed queue entry, the first n calls from index i
\* return candidates[i], candidates[i+1 mod n], ..., each candidate once, and
\* leave the index at i again.
C19_Wraparound ==
    LET cands == ScanLocalMedia(images_dir, videos_dir)
        n == Len(cands)
    IN (n > 0 /\ Len(trail) >= n) =>
          LET i == trail[1].index
          IN /\ \A j \in 1..n : trail[j].name = cands[((i + j - 1) % n) + 1].name
             /\ {trail[j].name : j \in 1..n} = {cands[k].name : k \in 1..n}
             /\ Len(trail) = n => current_index = i
             /\ Len(trail) > n => trail[n + 1].index = i

\* Three calls on three candidates, started at index 2.
C19_Witness ==
    /\ Len(ScanLocalMedia(images_dir, videos_dir)) = 3
    /\ Len(trail) = 3
    /\ trail[1].index = 2

\* C17 (unregistering an absent connection): the removal step of a handler
\* whose connection is not in the list raises nothing and leaves the list, its
\* contents and their order, as it was.
C17_UnregisterAbsentNoOp ==
    [][\A w \in WebSockets :
          (HandleDisconnect(w) /\ w \notin Range(active_connections)) =>
              /\ active_connections' = active_connections
              /\ unregistered'[w] = "absent"]_vars

\* A handler has run its removal on a non-empty list that did not hold its
\* connection.
C17_Witness ==
    /\ active_connections # <<>>
    /\ \E w \in WebSockets : unregistered[w] = "absent"

\* C16 (quit while showing): once a quit input was consumed while the media
\* was shown, no further selection is made and the player is at the top of its
\* loop, leaving, or stopped.
C16_QuitWhileShowing ==
    quit_seen.where = "showing" =>
        /\ rounds = quit_seen.rounds
        /\ stage \in {"idle", "stopped"}

\* C20 (render failure recovery): the selection that follows a failed render
\* does not return the item whose render failed.
C20_FailedNotReturnedNext ==
    [][\A pick \in DOMAIN ListOrder, io \in MarkOutcomes, success \in BOOLEAN :
          (Iterate(pick, io, success) /\ rendered = "failed") =>
              sel'.media.path # sel.media.path]_vars

\* C21 (quit is terminal): once a quit input was consumed, wherever the
\* player was, no further get_next_media call is made.
C21_QuitTerminal ==
    quit_seen # NoQuit => rounds = quit_seen.rounds

\* C22 (no queue item is deleted): a rewrite of the queue file by
\* mark_as_played_in_queue that succeeds leaves a JSON array that still holds,
\* in their places, all the entries the file held just before it.
C22_NoItemLost ==
    [][EndMark("ok") =>
          /\ queue_file'.kind = "array"
          /\ Len(queue_file'.items) >= Len(queue_file.items)
          /\ \A i \in DOMAIN queue_file.items :
                queue_file'.items[i].path = queue_file.items[i].path]_vars

\* C23 (only the render loop mutates scheduler state): a pass of
\* auto_refresh_queue leaves current_index, play_mode, loop, display_time and
\* the queue file as they were.
C23_RefreshFrame ==
    [][\A mtime \in Mtimes :
          AutoRefreshQueue(mtime) =>
              UNCHANGED <<current_index, play_mode, loop, display_time, queue_file>>]_vars

\* The thread has made a pass while an item is shown and the sequential index
\* has advanced.
C23_Witness ==
    /\ ticks >= 1
    /\ stage = "showing"
    /\ current_index > 0

\* C24 (queue drain): from some call on, every entry of the queue file is
\* played, for good.
C24_QueueDrains ==
    <>[](\A i \in DOMAIN queue_file.items : queue_file.items[i].played)

\* The message is the prefix followed by whitespace only.
PrefixAndBlanks(message) ==
    /\ StartsWith(message, Prefix)
    /\ \A i \in (Len(Prefix) + 1)..Len(message) : message[i] \in Whitespace

\* C25 (degenerate empty filename): a message that is the prefix followed by
\* whitespace only is taken as a content notification with the empty file
\* name; the download is a cache hit, makes no request and leaves the storage
\* as it was.
C25_EmptyFilename ==
    (last.kind # "none" /\ PrefixAndBlanks(last.msg)) =>
        /\ last.kind = "NewContent"
        /\ last.filename = <<>>
        /\ last.outcome = "hit"
        /\ last.requests = 0
        /\ storage = last.pre

\* The prefix followed by a blank was handled by a device that holds a file.
C25_Witness ==
    /\ last.msg = Prefix \o <<" ">>
    /\ last.kind = "NewContent"
    /\ storage # <<>>

\* The batches of events one pygame.event.get() may return.
Batches == UNION {[1..n -> Keys] : n \in 0..MaxKeys}

\* The event wait_with_events returns on, if any.
ReturnKey(evs) ==
    IF FirstReturn(evs) = 0 THEN "none" ELSE evs[FirstReturn(evs)]

=============================================================================
